---- MODULE Spec2Model ----
(***************************************************************************)
(* Model of converter.py: the EmzConverter batch pipeline.                 *)
(*                                                                         *)
(* A file name is a record [stem, ext]; a directory is a function from the *)
(* names it holds to their payload ("ok": the decoder can open and save    *)
(* it, "bad": Image.open or Image.save raises on it).  The state is the    *)
(* file system the converter touches (input folder, wmf_files staging      *)
(* folder, output folder, the csv report), the converter object and the    *)
(* position of the running call.                                           *)
(*                                                                         *)
(* The output folder is a directory distinct from the input folder and     *)
(* from the staging folder.  I/O faults are modelled for shutil.copyfile   *)
(* (stage 1) and for the decoder (stage 2); mkdir, rmtree and to_csv are   *)
(* taken to succeed whenever their target is as the code expects.          *)
(***************************************************************************)
EXTENDS Integers, Sequences, FiniteSets, TLC

\* Bounds of the model.
MaxStems == 2
MaxRuns == 2

Stems == 1..MaxStems
\* Stems of files that may already lie in the staging folder before a run:
\* "0" is never the stem of an input file, 1 is.
StaleStems == {0, 1}
Contents == {"ok", "bad"}
\* The caller's (folder_output_path, output_type) arguments, and what a run
\* may find on disk besides the input and staging folders: each argument
\* pair is met with and without an output folder, with and without an old
\* report.
Layouts ==
    {[args |-> [out |-> "None", type |-> "png"], output |-> FALSE, csv |-> FALSE],
     [args |-> [out |-> "None", type |-> "png"], output |-> TRUE, csv |-> TRUE],
     [args |-> [out |-> "supplied", type |-> "jpg"], output |-> FALSE, csv |-> TRUE],
     [args |-> [out |-> "supplied", type |-> "jpg"], output |-> TRUE, csv |-> FALSE]}

Name(s, e) == [stem |-> s, ext |-> e]
EmptyDir == [n \in {} |-> "ok"]
Put(dir, n, c) == [x \in (DOMAIN dir) \cup {n} |-> IF x = n THEN c ELSE dir[x]]
Dirs(names, contents) == UNION {[S -> contents] : S \in SUBSET names}
Range(s) == {s[i] : i \in 1..Len(s)}

VARIABLES
    args,                 \* the caller's constructor arguments
    folder_input_exists,  \* Path(folder_input_path).exists()
    input_files,          \* the input folder
    wmf_folder_exists,    \* <input>/wmf_files exists
    wmf_files,            \* the staging folder
    folder_output_exists, \* the resolved output folder exists
    output_files,         \* names in the output folder
    csv_file,             \* ./unsuccessful_conversions.csv
    pc,                   \* position of the run
    jobLive,              \* an EmzConverter object has been constructed
    runNo,                \* number of runs started
    sameJob,              \* this run is a further convert() on an old object
    emz_todo,             \* emz_files not yet iterated (line 75)
    copyFailed,           \* shutil.copyfile raised in this run
    staged,               \* the staging folder as stage 2 found it
    wmf_todo,             \* rest of the generator of line 82
    attempted,            \* staged files the loop body has run for
    errors_,              \* errors_ (line 81)
    written,              \* output names saved by this run
    held,                 \* staged files with a decoder handle still open
    removed,              \* rmtree (line 91) has run in this run
    reportWritten,        \* to_csv (line 94) has run in this run
    okAfterFail,          \* a file was saved after another one had failed
    start,                \* the file system when this run started
    prevWritten,          \* what the previous run wrote, noted on emptying
    emptiedRun,           \* run after which the output folder was emptied
    faulted,              \* an injected copy fault has occurred
    stale                 \* staged names that preceded the first run

fsvars == <<folder_input_exists, input_files, wmf_folder_exists, wmf_files,
            folder_output_exists, output_files, csv_file>>
runvars == <<emz_todo, copyFailed, staged, wmf_todo, attempted, errors_,
             written, held, removed, reportWritten, okAfterFail, start>>
histvars == <<prevWritten, emptiedRun, faulted, stale>>
vars == <<args, fsvars, pc, jobLive, runNo, sameJob, runvars, histvars>>

Terminal == {"PathNotFound", "CopyAborted", "FinderAborted", "Succeeded",
             "FailedWithReport"}
ConvertTerminal == Terminal \ {"PathNotFound"}

\* ---- pure helpers of the code ----

\* pathlib.PurePath.with_suffix: same stem, new extension.
with_suffix(f, e) == [f EXCEPT !.ext = e]

\* find_files: path.glob("*.suffix") over the names of a folder.
find_files(dir, suffix) == {f \in DOMAIN dir : f.ext = suffix}

\* check_paths: raises when the input folder is missing, before anything
\* else; otherwise the output folder exists afterwards.
check_paths_mkdir_first(inExists, outExists) ==
    [raised |-> ~inExists, out |-> TRUE]
check_paths(inExists, outExists) ==
    IF ~inExists THEN [raised |-> TRUE, out |-> outExists]
    ELSE [raised |-> FALSE, out |-> TRUE]

\* Lines 75-77 and 102: there is no try around copyfile, so an error leaves
\* the loop, convert_emz_files_to_wmf and convert.
stage1_next_swallow(raised) == "RelabelingFiles"
stage1_next(raised) == IF raised THEN "CopyAborted" ELSE "RelabelingFiles"

\* Lines 87-90: the handler ends with continue, the generator goes on.
continue_break(todo, f) == {}
continue_(todo, f) == todo \ {f}

\* The for loop of line 82 ends when the generator is exhausted.
loop_done_early(todo) == TRUE
loop_done(todo) == todo = {}

\* Line 92.
has_errors_always(errs) == Len(errs) >= 0
has_errors(errs) == Len(errs) > 0

\* ---- initial states ----

FS == [output_files |-> output_files, csv_file |-> csv_file,
       wmf_folder_exists |-> wmf_folder_exists, wmf_files |-> wmf_files,
       folder_output_exists |-> folder_output_exists]

RunReset ==
    /\ copyFailed' = FALSE
    /\ staged' = EmptyDir
    /\ wmf_todo' = {}
    /\ attempted' = {}
    /\ errors_' = <<>>
    /\ written' = {}
    /\ held' = {}
    /\ removed' = FALSE
    /\ reportWritten' = FALSE
    /\ okAfterFail' = FALSE

Init ==
    /\ folder_input_exists \in BOOLEAN
    /\ \E emz \in Dirs({Name(s, "emz") : s \in Stems}, Contents) :
         input_files = IF folder_input_exists
                       THEN Put(emz, Name(1, "txt"), "bad") ELSE EmptyDir
    /\ wmf_folder_exists \in (IF folder_input_exists THEN BOOLEAN ELSE {FALSE})
    /\ wmf_files \in (IF wmf_folder_exists
                      THEN Dirs({Name(s, "wmf") : s \in StaleStems}, Contents)
                      ELSE {EmptyDir})
    /\ \E l \in Layouts :
         /\ args = l.args
         /\ folder_output_exists =
              (l.output /\ (folder_input_exists \/ l.args.out = "supplied"))
         /\ csv_file = IF l.csv THEN [exists |-> TRUE, rows |-> <<Name(1, "wmf")>>]
                       ELSE [exists |-> FALSE, rows |-> <<>>]
    /\ output_files = IF folder_output_exists THEN {Name(1, args.type)} ELSE {}
    /\ pc = "Idle"
    /\ jobLive = FALSE
    /\ runNo = 0
    /\ sameJob = FALSE
    /\ emz_todo = {}
    /\ copyFailed = FALSE
    /\ staged = EmptyDir
    /\ wmf_todo = {}
    /\ attempted = {}
    /\ errors_ = <<>>
    /\ written = {}
    /\ held = {}
    /\ removed = FALSE
    /\ reportWritten = FALSE
    /\ okAfterFail = FALSE
    /\ start = FS
    /\ prevWritten = {}
    /\ emptiedRun = -1
    /\ faulted = FALSE
    /\ stale = DOMAIN wmf_files

\* ---- the constructor ----

\* The caller writes EmzConverter(...): __init__ is entered.
New ==
    /\ pc \in {"Idle"} \cup Terminal
    /\ runNo < MaxRuns
    /\ pc' = "Validating"
    /\ runNo' = runNo + 1
    /\ sameJob' = FALSE
    /\ RunReset
    /\ emz_todo' = {}
    /\ start' = FS
    /\ UNCHANGED <<args, fsvars, jobLive, histvars>>

\* Lines 21-22: self.check_paths(...).
init_check_paths ==
    /\ pc = "Validating"
    /\ LET r == check_paths(folder_input_exists, folder_output_exists) IN
         /\ folder_output_exists' = r.out
         /\ pc' = IF r.raised THEN "PathNotFound" ELSE "Validated"
    /\ UNCHANGED <<args, folder_input_exists, input_files, wmf_folder_exists,
                   wmf_files, output_files, csv_file, jobLive, runNo, sameJob,
                   runvars, histvars>>

\* Lines 24-28: wmf_folder.mkdir(parents=True, exist_ok=True); what the
\* folder already holds stays.
init_wmf_folder ==
    /\ pc = "Validated"
    /\ wmf_folder_exists' = TRUE
    /\ jobLive' = TRUE
    /\ pc' = "Ready"
    /\ UNCHANGED <<args, folder_input_exists, input_files, wmf_files,
                   folder_output_exists, output_files, csv_file, runNo, sameJob,
                   runvars, histvars>>

\* ---- convert() ----

\* Lines 100-102 and 72: convert() on the new object, emz_files is listed.
convert ==
    /\ pc = "Ready"
    /\ pc' = "RelabelingFiles"
    /\ emz_todo' = find_files(input_files, "emz")
    /\ UNCHANGED <<args, fsvars, jobLive, runNo, sameJob, copyFailed, staged,
                   wmf_todo, attempted, errors_, written, held, removed,
                   reportWritten, okAfterFail, start, histvars>>

\* A further convert() on an object whose earlier convert() has ended.
convert_again ==
    /\ pc \in {"Idle"} \cup ConvertTerminal
    /\ jobLive
    /\ runNo >= 1
    /\ runNo < MaxRuns
    /\ pc' = "RelabelingFiles"
    /\ runNo' = runNo + 1
    /\ sameJob' = TRUE
    /\ RunReset
    /\ emz_todo' = find_files(input_files, "emz")
    /\ start' = FS
    /\ UNCHANGED <<args, fsvars, jobLive, histvars>>

\* shutil.copyfile(src, dst) into the staging folder: FileNotFoundError when
\* the folder is gone; otherwise the environment lets it succeed, fail
\* before dst is created ("fail") or fail after dst was created and partly
\* written ("partial").
copyfile(dirExists, dir, dst, content, fault) ==
    IF ~dirExists THEN [raised |-> TRUE, dir |-> dir]
    ELSE IF fault = "none" THEN [raised |-> FALSE, dir |-> Put(dir, dst, content)]
    ELSE IF fault = "partial" THEN [raised |-> TRUE, dir |-> Put(dir, dst, "bad")]
    ELSE [raised |-> TRUE, dir |-> dir]

\* Lines 75-77: one iteration of the loop over emz_files (any order: glob
\* promises none).
copy_one ==
    /\ pc = "RelabelingFiles"
    /\ emz_todo # {}
    /\ \E file_ \in emz_todo, fault \in {"none", "fail", "partial"} :
         LET file_wmf == with_suffix(file_, "wmf")
             r == copyfile(wmf_folder_exists, wmf_files, file_wmf,
                           input_files[file_], fault)
         IN /\ wmf_files' = r.dir
            /\ copyFailed' = r.raised
            /\ faulted' = (faulted \/ (wmf_folder_exists /\ fault # "none"))
            /\ emz_todo' = emz_todo \ {file_}
            /\ pc' = stage1_next(r.raised)
    /\ UNCHANGED <<args, folder_input_exists, input_files, wmf_folder_exists,
                   folder_output_exists, output_files, csv_file, jobLive, runNo,
                   sameJob, staged, wmf_todo, attempted, errors_, written, held,
                   removed, reportWritten, okAfterFail, start, prevWritten,
                   emptiedRun, stale>>

\* Lines 103, 81-82: stage 1 has returned; find_files raises IOError when
\* the staging folder does not exist, else the generator is created.  The
\* generator is lazy, but nothing changes the staging folder while the loop
\* runs, so what it will yield is fixed here.
convert_wmf_to_specified_output_type ==
    /\ pc = "RelabelingFiles"
    /\ emz_todo = {}
    /\ IF wmf_folder_exists
       THEN /\ pc' = "Decoding"
            /\ staged' = wmf_files
            /\ wmf_todo' = find_files(wmf_files, "wmf")
       ELSE /\ pc' = "FinderAborted"
            /\ UNCHANGED <<staged, wmf_todo>>
    /\ UNCHANGED <<args, fsvars, jobLive, runNo, sameJob, emz_todo, copyFailed,
                   attempted, errors_, written, held, removed, reportWritten,
                   okAfterFail, start, histvars>>

\* Lines 83-90: the loop body for one staged file.  A "bad" payload makes
\* Image.open raise (the decoder closes what it opened; image_ keeps its old
\* value) or makes image_.save raise.  Once Image.open has returned, image_
\* is rebound, which drops the previous image; the code never closes the new
\* one, so whether its handle is still open afterwards is the decoder's
\* choice.
decode_one ==
    /\ pc = "Decoding"
    /\ wmf_todo # {}
    /\ \E file_ \in wmf_todo, where \in {"open", "save"}, closes \in BOOLEAN :
         LET ok == wmf_files[file_] = "ok"
             opened == ok \/ where = "save"
             file_output_type == with_suffix(file_, args.type)
         IN /\ ~opened => closes
            /\ ok => where = "save"
            /\ held' = IF opened THEN (IF closes THEN {} ELSE {file_}) ELSE held
            /\ attempted' = attempted \cup {file_}
            /\ IF ok
               THEN /\ output_files' = output_files \cup {file_output_type}
                    /\ written' = written \cup {file_output_type}
                    /\ okAfterFail' = (okAfterFail \/ errors_ # <<>>)
                    /\ wmf_todo' = wmf_todo \ {file_}
                    /\ UNCHANGED errors_
               ELSE /\ errors_' = Append(errors_, file_)
                    /\ wmf_todo' = continue_(wmf_todo, file_)
                    /\ UNCHANGED <<output_files, written, okAfterFail>>
    /\ UNCHANGED <<args, folder_input_exists, input_files, wmf_folder_exists,
                   wmf_files, folder_output_exists, csv_file, pc, jobLive, runNo,
                   sameJob, emz_todo, copyFailed, staged, removed, reportWritten,
                   start, histvars>>

\* The generator of line 82 is exhausted: control reaches line 91.
end_loop ==
    /\ pc = "Decoding"
    /\ loop_done(wmf_todo)
    /\ pc' = "CleaningUp"
    /\ UNCHANGED <<args, fsvars, jobLive, runNo, sameJob, runvars, histvars>>

\* Lines 91-92, 97-98: shutil.rmtree(self.wmf_folder), then the test on
\* errors_; with no errors the call returns and its local image_ is gone.
rmtree ==
    /\ pc = "CleaningUp"
    /\ wmf_folder_exists' = FALSE
    /\ wmf_files' = EmptyDir
    /\ removed' = TRUE
    /\ pc' = IF has_errors(errors_) THEN "Reporting" ELSE "Succeeded"
    /\ held' = IF has_errors(errors_) THEN held ELSE {}
    /\ UNCHANGED <<args, folder_input_exists, input_files, folder_output_exists,
                   output_files, csv_file, jobLive, runNo, sameJob, emz_todo,
                   copyFailed, staged, wmf_todo, attempted, errors_, written,
                   reportWritten, okAfterFail, start, histvars>>

\* Lines 93-96: the DataFrame of errors_ is written to the csv, then the
\* exception is raised.
write_report ==
    /\ pc = "Reporting"
    /\ csv_file' = [exists |-> TRUE, rows |-> errors_]
    /\ reportWritten' = TRUE
    /\ pc' = "FailedWithReport"
    /\ UNCHANGED <<args, folder_input_exists, input_files, wmf_folder_exists,
                   wmf_files, folder_output_exists, output_files, jobLive, runNo,
                   sameJob, emz_todo, copyFailed, staged, wmf_todo, attempted,
                   errors_, written, held, removed, okAfterFail, start,
                   histvars>>

\* ---- the caller between two runs ----

\* The output folder is emptied after a convert() has ended.
EmptyOutput ==
    /\ pc \in ConvertTerminal
    /\ runNo < MaxRuns
    /\ output_files' = {}
    /\ prevWritten' = written
    /\ emptiedRun' = runNo
    /\ pc' = "Idle"
    /\ RunReset
    /\ emz_todo' = {}
    /\ UNCHANGED <<args, folder_input_exists, input_files, wmf_folder_exists,
                   wmf_files, folder_output_exists, csv_file, jobLive, runNo,
                   sameJob, start, faulted, stale>>

Next ==
    \/ New
    \/ init_check_paths
    \/ init_wmf_folder
    \/ convert
    \/ convert_again
    \/ copy_one
    \/ convert_wmf_to_specified_output_type
    \/ decode_one
    \/ end_loop
    \/ rmtree
    \/ write_report
    \/ EmptyOutput

Spec == Init /\ [][Next]_vars

\* ---- what the claims speak about ----

InputEmz == find_files(input_files, "emz")
AllInputsDecode == \A f \in InputEmz : input_files[f] = "ok"
OutputOf(f) == with_suffix(with_suffix(f, "wmf"), args.type)
ExpectedOutputs == {OutputOf(f) : f \in InputEmz}
StagedWmf == find_files(staged, "wmf")
StagedOk == {f \in StagedWmf : staged[f] = "ok"}
StagedBad == {f \in StagedWmf : staged[f] # "ok"}
Rank(p) ==
    CASE p = "Idle" -> 0
      [] p \in {"Validating", "Validated", "Ready"} -> 1
      [] p = "RelabelingFiles" -> 2
      [] p = "Decoding" -> 3
      [] p \in {"CleaningUp", "Reporting"} -> 4
      [] OTHER -> 5

\* C1: a run (new object, then convert()) over N .emz files that all decode
\* writes exactly the N outputs named after them with the configured
\* extension, and the staging folder is gone afterwards.
C1_ExactlyNOutputs ==
    (pc \in {"Succeeded", "FailedWithReport"} /\ ~sameJob /\ AllInputsDecode)
        => /\ written = ExpectedOutputs
           /\ Cardinality(written) = Cardinality(InputEmz)
           /\ ~wmf_folder_exists

\* C2: once the loop of stage 2 has ended, every staged file has been
\* attempted, every staged file that decodes has its output, every staged
\* file that fails is in errors_ exactly once; a run with a failure ends
\* with the batch error only, and then the report holds exactly errors_.
C2_PerFileIsolation ==
    /\ pc \in {"CleaningUp", "Reporting", "Succeeded", "FailedWithReport"}
         => /\ attempted = StagedWmf
            /\ written = {with_suffix(f, args.type) : f \in StagedOk}
            /\ Range(errors_) = StagedBad
            /\ Len(errors_) = Cardinality(StagedBad)
    /\ (pc \in Terminal /\ errors_ # <<>>) => pc = "FailedWithReport"
    /\ pc = "FailedWithReport"
         => /\ reportWritten
            /\ csv_file = [exists |-> TRUE, rows |-> errors_]
            /\ StagedBad # {}
C2_Witness ==
    /\ pc = "FailedWithReport"
    /\ okAfterFail
    /\ Cardinality(written) >= 1
    /\ Len(errors_) >= 1

\* C3: whenever a run in which the staging folder was created has ended
\* (success, batch error, or abort by a copy error), the staging folder
\* does not exist.
C3_StagingAlwaysRemoved ==
    (pc \in ConvertTerminal /\ jobLive) => ~wmf_folder_exists

\* C4: with the input folder missing, the constructor raises the
\* path-not-found error and leaves the file system as it was: no output
\* folder and no staging folder is created, whatever the output argument.
C4_MissingInputRaisesFirst ==
    (~folder_input_exists /\ pc \notin {"Idle", "Validating"})
        => /\ pc = "PathNotFound"
           /\ FS = start
           /\ ~wmf_folder_exists
           /\ ~jobLive
C4_Witness ==
    /\ pc = "PathNotFound"
    /\ ~folder_output_exists
    /\ args.out = "supplied"

\* C5: every output a run writes is named after an .emz file of the input
\* folder, and every .emz file of the input folder that decodes has its
\* output once the run has ended.
C5_OutputsOnlyFromSources ==
    /\ \A o \in written : \E f \in InputEmz : OutputOf(f) = o
    /\ pc \in {"Succeeded", "FailedWithReport"}
         => \A f \in InputEmz : input_files[f] = "ok" => OutputOf(f) \in written

\* C6: once copyfile has raised in stage 1 the run is over: the call sits
\* in the aborted state, stage 2 has not started, nothing was decoded,
\* written, removed or reported, and nothing more is copied in this run.
C6_CopyErrorIsTerminal ==
    /\ [](copyFailed
            => /\ pc = "CopyAborted"
               /\ staged = EmptyDir
               /\ attempted = {}
               /\ errors_ = <<>>
               /\ written = {}
               /\ ~removed
               /\ ~reportWritten
               /\ output_files = start.output_files
               /\ csv_file = start.csv_file)
    /\ [][(copyFailed /\ runNo' = runNo) => wmf_files' = wmf_files]_vars
C6_Witness ==
    /\ pc = "CopyAborted"
    /\ emz_todo # {}
    /\ wmf_files # start.wmf_files

\* C7: the report is written exactly when errors_ is non-empty at the end
\* of the loop; a run without a failed file leaves the report path as it
\* found it and ends in success.
C7_ReportIffFailures ==
    /\ reportWritten
         => /\ errors_ # <<>>
            /\ pc = "FailedWithReport"
            /\ csv_file = [exists |-> TRUE, rows |-> errors_]
    /\ pc \in {"Succeeded", "FailedWithReport"} => (reportWritten <=> errors_ # <<>>)
    /\ (removed /\ errors_ = <<>>) => (pc = "Succeeded" /\ csv_file = start.csv_file)
    /\ (pc # "Idle" /\ ~reportWritten) => csv_file = start.csv_file
C7_Witness ==
    /\ pc = "Succeeded"
    /\ written # {}
    /\ csv_file.exists
    /\ ~reportWritten

\* C8: a run that follows an emptying of the output folder writes the same
\* outputs as the run before the emptying, with a new object as well as
\* with a further convert() on the old one (no copy fault injected, staging
\* folder not pre-populated).
C8_Idempotent ==
    (pc \in Terminal /\ emptiedRun >= 1 /\ emptiedRun = runNo - 1
       /\ ~faulted /\ stale = {})
        => written = prevWritten

\* C9: within a run the phase never goes back; nothing is decoded before
\* every .emz file has been copied, the staging folder is removed only after
\* every staged file was attempted, the report is written only after the
\* removal, and the batch error is raised only after the report is written.
C9_PhaseOrder ==
    /\ []((pc = "Decoding" \/ attempted # {}) => (emz_todo = {} /\ ~copyFailed))
    /\ [](removed => (wmf_todo = {} /\ attempted = StagedWmf))
    /\ [](reportWritten => removed)
    /\ [](pc = "FailedWithReport" => reportWritten)
    /\ [](pc = "Succeeded" => removed)
    /\ [][(runNo' = runNo /\ pc' # "Idle") => Rank(pc') >= Rank(pc)]_vars
C9_Witness ==
    /\ pc = "FailedWithReport"
    /\ Cardinality(attempted) >= 2
    /\ written # {}

\* C10: no decoder handle outlives the iteration that opened it: none is
\* held between iterations, at the removal of the staging folder or at the
\* end of the run.
C10_HandlesReleased == held = {}
====
